---------------------------- MODULE Spec2Model ----------------------------
(***************************************************************************)
(* Model of the RPN calculator crate (src/src/lib.rs, src/src/main.rs).    *)
(*                                                                         *)
(* One behaviour is one call of eval_str on one input text: the tokens of  *)
(* the text are consumed one per step by parse's for loop, the final stack *)
(* check produces the parse result, Expr::eval reduces the tree, and       *)
(* eval_str wraps the outcome.                                             *)
(*                                                                         *)
(* Text is a sequence of one-character strings, so that tokenising,        *)
(* number parsing and number formatting are computed character by          *)
(* character.  i64 is modelled as a two's-complement integer of Width      *)
(* bits; all range checks and wraparound are relative to Width.            *)
(***************************************************************************)
EXTENDS Integers, Sequences, FiniteSets

VARIABLES
    input,      \* the text given to eval_str / parse: a sequence of characters
    pos,        \* index, in the words of input, of the next word of parse's loop
    stack,      \* parse's operand stack (Vec<Expr>), top at the end
    pc,         \* position in eval_str: "parse", "parsed", "evaluated", "done"
    parsed,     \* what parse returned (NoResult before it returns)
    overflowChecks, \* whether the build traps arithmetic overflow (the profile's overflow-checks)
    evaluated,  \* what Expr::eval returned (NoResult when not (yet) called)
    evalLog,    \* calls and returns of Expr::eval, in execution order
    out         \* what eval_str returned (NoResult before it returns)

vars == <<input, pos, stack, pc, parsed, overflowChecks, evaluated, evalLog, out>>

---------------------------------------------------------------------------
(* Bounds of the model *)

\* number of words in the exhaustively enumerated inputs
MaxTokens == 3

\* width in bits of the modelled signed integer type (i64 in the source)
Width == 8

---------------------------------------------------------------------------
(* The integer domain *)

RECURSIVE Pow2(_)
Pow2(n) == IF n = 0 THEN 1 ELSE 2 * Pow2(n - 1)

Modulus == Pow2(Width)
MinInt == -Pow2(Width - 1)
MaxInt == Pow2(Width - 1) - 1
InRange(n) == MinInt <= n /\ n <= MaxInt

Abs(n) == IF n < 0 THEN -n ELSE n

\* two's-complement wraparound of a mathematical integer
Wrap(n) == ((n - MinInt) % Modulus) + MinInt

---------------------------------------------------------------------------
(* Expr, the error enums and the Result values *)

Number(v) == [tag |-> "Number", val |-> v]
Add(x, y) == [tag |-> "Add", l |-> x, r |-> y]
Sub(x, y) == [tag |-> "Sub", l |-> x, r |-> y]
Mul(x, y) == [tag |-> "Mul", l |-> x, r |-> y]
Div(x, y) == [tag |-> "Div", l |-> x, r |-> y]
Sqr(x)    == [tag |-> "Sqr", x |-> x]

DivisionByZero == [kind |-> "DivisionByZero"]

InvalidInput(text)  == [kind |-> "InvalidInput", text |-> text]
WrongArgumentsCount == [kind |-> "WrongArgumentsCount"]
EmptyInput          == [kind |-> "EmptyInput"]
LeftArguments       == [kind |-> "LeftArguments"]

\* ParseOrEvalError and its two From conversions
ParseVariant(e) == [kind |-> "Parse", err |-> e]
EvalVariantAsParse(e) == [kind |-> "Parse", err |-> e]
EvalVariant(e) == [kind |-> "Eval", err |-> e]

Ok(v)      == [kind |-> "Ok", val |-> v]
Err(e)     == [kind |-> "Err", err |-> e]
Panic(msg) == [kind |-> "Panic", msg |-> msg]
NoResult   == [kind |-> "None"]

---------------------------------------------------------------------------
(* Characters, tokenising, number parsing and formatting *)

AsciiWhitespace == {" ", "\t", "\n", "\f", "\r"}

DigitChars == <<"0", "1", "2", "3", "4", "5", "6", "7", "8", "9">>
IsDigit(c) == \E i \in 1..10 : DigitChars[i] = c
DigitValue(c) == (CHOOSE i \in 1..10 : DigitChars[i] = c) - 1

SymAdd == <<"+">>
SymSub == <<"-">>
SymMul == <<"*">>
SymDiv == <<"/">>
SymSqr == <<"s", "q", "r">>
BinarySymbols == {SymAdd, SymSub, SymMul, SymDiv}

\* str::split_ascii_whitespace: the maximal runs of non-whitespace characters
RECURSIVE SplitFrom(_, _, _, _)
SplitFrom(s, i, cur, acc) ==
    IF i > Len(s)
    THEN IF cur = <<>> THEN acc ELSE Append(acc, cur)
    ELSE IF s[i] \in AsciiWhitespace
         THEN SplitFrom(s, i + 1, <<>>, IF cur = <<>> THEN acc ELSE Append(acc, cur))
         ELSE SplitFrom(s, i + 1, Append(cur, s[i]), acc)

SplitAsciiWhitespace(s) == SplitFrom(s, 1, <<>>, <<>>)

\* the digit loop of i64::from_str: the accumulator is multiplied by ten and
\* the digit added (subtracted for a negative literal), each step checked
\* against the range of the type
RECURSIVE ParseDigits(_, _, _, _)
ParseDigits(w, i, positive, acc) ==
    IF i > Len(w) THEN Ok(acc)
    ELSE IF ~IsDigit(w[i]) THEN Err("InvalidDigit")
    ELSE LET m == acc * 10 IN
         IF ~InRange(m)
         THEN Err(IF positive THEN "PosOverflow" ELSE "NegOverflow")
         ELSE LET n == IF positive THEN m + DigitValue(w[i]) ELSE m - DigitValue(w[i]) IN
              IF ~InRange(n)
              THEN Err(IF positive THEN "PosOverflow" ELSE "NegOverflow")
              ELSE ParseDigits(w, i + 1, positive, n)

\* word.parse::<i64>()
ParseI64(w) ==
    IF w = <<>> THEN Err("Empty")
    ELSE IF w = <<"+">> \/ w = <<"-">> THEN Err("InvalidDigit")
    ELSE IF w[1] = "+" THEN ParseDigits(w, 2, TRUE, 0)
    ELSE IF w[1] = "-" THEN ParseDigits(w, 2, FALSE, 0)
    ELSE ParseDigits(w, 1, TRUE, 0)

\* Display of an i64, as used by println!("Result: {result}")
RECURSIVE FmtNat(_)
FmtNat(n) ==
    IF n < 10 THEN <<DigitChars[n + 1]>>
    ELSE Append(FmtNat(n \div 10), DigitChars[(n % 10) + 1])

FmtInt(v) == IF v < 0 THEN <<"-">> \o FmtNat(-v) ELSE FmtNat(v)

---------------------------------------------------------------------------
(* Vec::pop *)

Pop(s) ==
    IF s = <<>>
    THEN [some |-> FALSE, rest |-> s]
    ELSE [some |-> TRUE, val |-> s[Len(s)], rest |-> SubSeq(s, 1, Len(s) - 1)]

---------------------------------------------------------------------------
(* Expr::eval *)

FloorDiv(a, b) ==
    IF b > 0 THEN a \div b ELSE (-a) \div (-b)

\* native signed division: the quotient is truncated toward zero
TruncDiv(a, b) ==
    IF (a < 0) = (b < 0)
    THEN Abs(a) \div Abs(b)
    ELSE -(Abs(a) \div Abs(b))

\* the result of +, - or * on two i64 values: in range it is the value; out
\* of range the build decides between the overflow trap and wraparound
Arith(n, checks, msg) ==
    IF InRange(n) THEN Ok(n)
    ELSE IF checks THEN Panic(msg)
    ELSE Ok(Wrap(n))

\* the result of the native x / y: a zero divisor and MIN / -1 trap in every
\* build
Quotient(x, y) ==
    IF y = 0 THEN Panic("attempt to divide by zero")
    ELSE IF x = MinInt /\ y = -1 THEN Panic("attempt to divide with overflow")
    ELSE Ok(TruncDiv(x, y))

Call(path) == [ev |-> "call", path |-> path]
Ret(path, res) == [ev |-> "ret", path |-> path, res |-> res]

\* what one call of eval gives: its result and the calls and returns made
\* from its entry to its exit, in order
Done(path, res, log) ==
    [res |-> res, log |-> <<Call(path)>> \o log \o <<Ret(path, res)>>]

\* One call of eval on the subtree e found at `path` of the root (1 is the
\* left or only child, 2 the right child).  `?` returns the first failure
\* at once; a panic unwinds through every caller, which the log shows as a
\* return of the panic.
RECURSIVE Eval(_, _, _)

DivArmDividendFirst(e, checks, path) ==
    LET x == Eval(e.l, checks, Append(path, 1)) IN
    IF x.res.kind # "Ok" THEN Done(path, x.res, x.log)
    ELSE LET y == Eval(e.r, checks, Append(path, 2)) IN
         IF y.res.kind # "Ok" THEN Done(path, y.res, x.log \o y.log)
         ELSE IF y.res.val = 0 THEN Done(path, Err(DivisionByZero), x.log \o y.log)
         ELSE Done(path, Quotient(x.res.val, y.res.val), x.log \o y.log)

\* the arm Expr::Div
DivArm(e, checks, path) ==
    LET y == Eval(e.r, checks, Append(path, 2)) IN
    IF y.res.kind # "Ok" THEN Done(path, y.res, y.log)
    ELSE IF y.res.val = 0 THEN Done(path, Err(DivisionByZero), y.log)
    ELSE LET x == Eval(e.l, checks, Append(path, 1)) IN
         IF x.res.kind # "Ok" THEN Done(path, x.res, y.log \o x.log)
         ELSE Done(path, Quotient(x.res.val, y.res.val), y.log \o x.log)

Eval(e, checks, path) ==
    IF e.tag = "Number" THEN Done(path, Ok(e.val), <<>>)
    ELSE IF e.tag \in {"Add", "Sub", "Mul"} THEN
        LET x == Eval(e.l, checks, Append(path, 1)) IN
        IF x.res.kind # "Ok" THEN Done(path, x.res, x.log)
        ELSE LET y == Eval(e.r, checks, Append(path, 2)) IN
             IF y.res.kind # "Ok" THEN Done(path, y.res, x.log \o y.log)
             ELSE Done(path,
                       CASE e.tag = "Add" ->
                              Arith(x.res.val + y.res.val, checks, "attempt to add with overflow")
                         [] e.tag = "Sub" ->
                              Arith(x.res.val - y.res.val, checks, "attempt to subtract with overflow")
                         [] e.tag = "Mul" ->
                              Arith(x.res.val * y.res.val, checks, "attempt to multiply with overflow"),
                       x.log \o y.log)
    ELSE IF e.tag = "Div" THEN DivArm(e, checks, path)
    ELSE \* Sqr
        LET x == Eval(e.x, checks, Append(path, 1)) IN
        IF x.res.kind # "Ok" THEN Done(path, x.res, x.log)
        ELSE Done(path,
                  Arith(x.res.val * x.res.val, checks, "attempt to multiply with overflow"),
                  x.log)

---------------------------------------------------------------------------
(* The inputs *)

\* words the enumerated inputs are made of: every operator, numbers that
\* reach zero divisors, negative quotients and the edge of the range, and a
\* word that is no number
TokenChoices ==
    BinarySymbols \cup {SymSqr}
    \cup {FmtInt(0), FmtInt(2), FmtInt(-3), FmtInt(-1), FmtInt(MaxInt), FmtInt(MinInt),
          <<"+", "1">>, <<"x">>}

BoundedWords == UNION {[1..n -> TokenChoices] : n \in 0..MaxTokens}

\* the inputs of the crate's tests and further inputs at the edges
ExtraWords == {
    <<FmtInt(1), FmtInt(1), SymAdd>>,
    <<FmtInt(2), FmtInt(1), SymSub>>,
    <<FmtInt(2), FmtInt(3), SymMul>>,
    <<FmtInt(4), FmtInt(2), SymDiv>>,
    <<FmtInt(3), FmtInt(2), SymDiv>>,
    <<FmtInt(4), SymSqr>>,
    <<FmtInt(3), FmtInt(4), SymAdd>>,
    <<FmtInt(4), FmtInt(2), SymAdd, FmtInt(6), SymMul>>,
    <<FmtInt(4), FmtInt(2), SymAdd, FmtInt(1), SymMul, SymSqr>>,
    <<FmtInt(4), FmtInt(2), SymAdd, FmtInt(3), SymMul>>,
    <<FmtInt(3), SymSqr, FmtInt(4), SymSqr, SymAdd, FmtInt(5), SymSqr, SymSub>>,
    <<FmtInt(1)>>,
    <<FmtInt(1), SymAdd>>,
    <<FmtInt(1), SymAdd, <<"x">>, FmtInt(1)>>,
    <<SymSqr, FmtInt(1)>>,
    <<<<"s", "o", "m", "e", "t", "h", "i", "n", "g">>>>,
    <<FmtInt(1), FmtInt(1)>>,
    <<FmtInt(-1), FmtInt(0), SymDiv>>,
    <<FmtInt(MinInt), FmtInt(-1), SymDiv>>,
    <<FmtInt(MinInt), FmtInt(-1), SymMul>>,
    <<FmtInt(MinInt), FmtInt(1), SymSub>>,
    <<FmtInt(MinInt), SymSqr>>,
    <<FmtInt(MaxInt), FmtInt(1), SymAdd>>,
    <<FmtInt(MaxInt + 1)>>,
    <<FmtInt(MinInt - 1)>>,
    <<FmtInt(2), FmtInt(MaxInt + 1), SymAdd>>,
    <<<<"+", "1">>>>,
    <<<<"+", "2">>, <<"0", "1">>, SymSub>>,
    <<<<"-", "0">>>>,
    <<<<"0", "0", "7">>, SymSqr>>,
    <<<<"1", "x">>>>,
    <<<<"-", "-", "1">>>>,
    <<<<"s", "q">>, FmtInt(1)>>,
    <<FmtInt(1), <<"S", "Q", "R">>>>,
    <<FmtInt(MaxInt), SymSqr, FmtInt(0), SymDiv>>,
    <<FmtInt(MaxInt), SymSqr, FmtInt(1), FmtInt(0), SymDiv, SymDiv>>,
    <<FmtInt(MaxInt), SymSqr, FmtInt(2), SymDiv>>,
    <<FmtInt(1), FmtInt(0), SymDiv, FmtInt(MaxInt), SymSqr, SymAdd>>,
    <<FmtInt(MaxInt), SymSqr, FmtInt(1), FmtInt(0), SymDiv, SymAdd>>,
    <<FmtInt(-3), FmtInt(2), SymDiv, FmtInt(-3), FmtInt(-2), SymDiv, SymSub>>
}

\* how the words are laid out in the text: whitespace before the first word,
\* between two words and after the last
Layouts == {
    [lead |-> <<>>, sep |-> <<" ">>, trail |-> <<>>],
    [lead |-> <<" ">>, sep |-> <<"\t", " ">>, trail |-> <<"\n">>]
}

RECURSIVE JoinWords(_, _)
JoinWords(ws, sep) ==
    IF ws = <<>> THEN <<>>
    ELSE IF Len(ws) = 1 THEN ws[1]
    ELSE ws[1] \o sep \o JoinWords(Tail(ws), sep)

Layout(ws, lay) == lay.lead \o JoinWords(ws, lay.sep) \o lay.trail

Inputs == {Layout(ws, lay) : ws \in BoundedWords \cup ExtraWords, lay \in Layouts}

---------------------------------------------------------------------------
(* The state machine *)

Words == SplitAsciiWhitespace(input)

\* the state at the call of eval_str(input), in a build whose overflow-checks
\* setting is one of builds
InitIn(builds) ==
    /\ input \in Inputs
    /\ overflowChecks \in builds
    /\ pos = 1
    /\ stack = <<>>
    /\ pc = "parse"
    /\ parsed = NoResult
    /\ evaluated = NoResult
    /\ evalLog = <<>>
    /\ out = NoResult

\* any build: the source fixes no profile
Init == InitIn(BOOLEAN)

\* a build without overflow checks (the release profile's default)
InitRelease == InitIn({FALSE})

\* what one pass through the loop body, or the code after the loop, does:
\* go on with the next word, or return from parse
Continue(stk)    == [kind |-> "Continue", stk |-> stk]
Return(res, stk) == [kind |-> "Return", res |-> res, stk |-> stk]

BinaryNodeSwapped(w, y, x) ==
    CASE w = SymSub -> Sub(x, y)
      [] w = SymAdd -> Add(x, y)
      [] w = SymMul -> Mul(x, y)
      [] w = SymDiv -> Div(x, y)

\* the node each binary arm pushes: y, popped second, is the left child
BinaryNode(w, y, x) ==
    CASE w = SymSub -> Sub(y, x)
      [] w = SymAdd -> Add(y, x)
      [] w = SymMul -> Mul(y, x)
      [] w = SymDiv -> Div(y, x)

BinaryArmOneOperand(w, stk) ==
    LET px == Pop(stk) IN
    IF ~px.some THEN Return(Err(WrongArgumentsCount), px.rest)
    ELSE LET py == Pop(px.rest) IN
         IF ~py.some THEN Continue(Append(py.rest, px.val))
         ELSE Continue(Append(py.rest, BinaryNode(w, py.val, px.val)))

\* the arms "-", "+", "*", "/" of parse's match
BinaryArm(w, stk) ==
    LET px == Pop(stk) IN
    IF ~px.some THEN Return(Err(WrongArgumentsCount), px.rest)
    ELSE LET py == Pop(px.rest) IN
         IF ~py.some THEN Return(Err(WrongArgumentsCount), py.rest)
         ELSE Continue(Append(py.rest, BinaryNode(w, py.val, px.val)))

SqrArmPeeks(stk) ==
    LET px == Pop(stk) IN
    IF ~px.some THEN Return(Err(WrongArgumentsCount), px.rest)
    ELSE Continue(Append(stk, Sqr(px.val)))

\* the arm "sqr"
SqrArm(stk) ==
    LET px == Pop(stk) IN
    IF ~px.some THEN Return(Err(WrongArgumentsCount), px.rest)
    ELSE Continue(Append(px.rest, Sqr(px.val)))

NumberArmDefaultsToZero(w, stk) ==
    LET x == ParseI64(w) IN
    IF x.kind # "Ok" THEN Continue(Append(stk, Number(0)))
    ELSE Continue(Append(stk, Number(x.val)))

\* the arm _ : the word must be a number
NumberArm(w, stk) ==
    LET x == ParseI64(w) IN
    IF x.kind # "Ok" THEN Return(Err(InvalidInput(w)), stk)
    ELSE Continue(Append(stk, Number(x.val)))

AfterLoopAtLeastOne(stk) ==
    IF Len(stk) >= 1 THEN Return(Err(LeftArguments), stk)
    ELSE LET p == Pop(stk) IN
         IF p.some THEN Return(Ok(p.val), p.rest)
         ELSE Return(Err(EmptyInput), p.rest)

\* after the loop: the check of the stack's length
AfterLoop(stk) ==
    IF Len(stk) > 1 THEN Return(Err(LeftArguments), stk)
    ELSE LET p == Pop(stk) IN
         IF p.some THEN Return(Ok(p.val), p.rest)
         ELSE Return(Err(EmptyInput), p.rest)

\* the effect of an outcome on parse's state
Step(o) ==
    /\ stack' = o.stk
    /\ IF o.kind = "Continue"
       THEN /\ pos' = pos + 1
            /\ pc' = pc
            /\ parsed' = parsed
       ELSE /\ pos' = pos
            /\ pc' = "parsed"
            /\ parsed' = o.res
    /\ UNCHANGED <<input, overflowChecks, evaluated, evalLog, out>>

ParseBinary ==
    /\ pc = "parse"
    /\ pos <= Len(Words)
    /\ Words[pos] \in BinarySymbols
    /\ Step(BinaryArm(Words[pos], stack))

ParseSqr ==
    /\ pc = "parse"
    /\ pos <= Len(Words)
    /\ Words[pos] = SymSqr
    /\ Step(SqrArm(stack))

ParseNumber ==
    /\ pc = "parse"
    /\ pos <= Len(Words)
    /\ Words[pos] \notin BinarySymbols \cup {SymSqr}
    /\ Step(NumberArm(Words[pos], stack))

ParseEnd ==
    /\ pc = "parse"
    /\ pos > Len(Words)
    /\ Step(AfterLoop(stack))

\* eval_str: the first `?`, on a failed parse
EvalStrParseFailed ==
    /\ pc = "parsed"
    /\ parsed.kind = "Err"
    /\ out' = Err(ParseVariant(parsed.err))
    /\ pc' = "done"
    /\ UNCHANGED <<input, pos, stack, parsed, overflowChecks, evaluated, evalLog>>

\* eval_str: the call of eval on the parsed tree
Evaluate ==
    /\ pc = "parsed"
    /\ parsed.kind = "Ok"
    /\ LET r == Eval(parsed.val, overflowChecks, <<>>) IN
       /\ evaluated' = r.res
       /\ evalLog' = r.log
    /\ pc' = "evaluated"
    /\ UNCHANGED <<input, pos, stack, parsed, overflowChecks, out>>

\* eval_str: the second `?` and the Ok around the value
EvalStrReturn ==
    /\ pc = "evaluated"
    /\ out' = CASE evaluated.kind = "Ok" -> Ok(evaluated.val)
                [] evaluated.kind = "Err" -> Err(EvalVariant(evaluated.err))
                [] evaluated.kind = "Panic" -> evaluated
    /\ pc' = "done"
    /\ UNCHANGED <<input, pos, stack, parsed, overflowChecks, evaluated, evalLog>>

Next ==
    \/ ParseBinary
    \/ ParseSqr
    \/ ParseNumber
    \/ ParseEnd
    \/ EvalStrParseFailed
    \/ Evaluate
    \/ EvalStrReturn

Spec == Init /\ [][Next]_vars

\* the same program built without overflow checks
SpecRelease == InitRelease /\ [][Next]_vars

---------------------------------------------------------------------------
(* Reference notions used to state the properties.  They are defined       *)
(* independently of the operators above that model the code.               *)

RECURSIVE Pow10(_)
Pow10(n) == IF n = 0 THEN 1 ELSE 10 * Pow10(n - 1)

\* the digits of a word after its optional sign
LiteralDigits(w) == IF w # <<>> /\ w[1] \in {"+", "-"} THEN Tail(w) ELSE w

RECURSIVE DigitSum(_, _)
DigitSum(d, i) ==
    IF i > Len(d) THEN 0
    ELSE DigitValue(d[i]) * Pow10(Len(d) - i) + DigitSum(d, i + 1)

\* the mathematical value of a signed decimal literal
LiteralValue(w) ==
    IF w[1] = "-" THEN -DigitSum(LiteralDigits(w), 1) ELSE DigitSum(LiteralDigits(w), 1)

\* a word is a valid literal of the integer type: an optional sign, at least
\* one digit, nothing else, and a value inside the range
IsLiteral(w) ==
    /\ LiteralDigits(w) # <<>>
    /\ \A i \in 1..Len(LiteralDigits(w)) : IsDigit(LiteralDigits(w)[i])
    /\ InRange(LiteralValue(w))

IsOperatorWord(w) == w \in {<<"+">>, <<"-">>, <<"*">>, <<"/">>, <<"s", "q", "r">>}

OperatorTag(w) ==
    CASE w = <<"+">> -> "Add"
      [] w = <<"-">> -> "Sub"
      [] w = <<"*">> -> "Mul"
      [] w = <<"/">> -> "Div"

\* the quotient of a by b # 0 truncated toward zero, stated by its defining
\* property: a = q * b + r with |r| < |b| and r zero or of the sign of a
RefQuotient(a, b) ==
    CHOOSE q \in -Abs(a)..Abs(a) :
        \E r \in -(Abs(b) - 1)..(Abs(b) - 1) :
            /\ a = q * b + r
            /\ (r = 0 \/ (r < 0) = (a < 0))

\* parse is at a word (all earlier words were processed successfully)
AtWord == pc = "parse" /\ pos <= Len(Words)

\* parse has returned
ParseReturned == parsed # NoResult

\* eval has been called and is over
EvalReturned == evaluated # NoResult

---------------------------------------------------------------------------
(* C1 *)

\* C1 (step): a binary operator word met with at least two subtrees on the
\* stack replaces the top two subtrees x (top) and y (below it) by the
\* operator's node with y as left child and x as right child.
C1_Step ==
    (AtWord /\ Words[pos] \in {<<"+">>, <<"-">>, <<"*">>, <<"/">>} /\ Len(stack) >= 2)
        => LET n == Len(stack) IN
           /\ parsed' = NoResult
           /\ stack' = Append(SubSeq(stack, 1, n - 2),
                              [tag |-> OperatorTag(Words[pos]),
                               l |-> stack[n - 1], r |-> stack[n]])

\* C1 (result): for the text "a b -" of two literals the tree is
\* Sub(Number a, Number b) and a returned value is a - b; for "a b /" the
\* tree is Div(Number a, Number b) and, for b # 0, the value is a divided by b.
C1_Result ==
    (/\ Len(Words) = 3
     /\ IsLiteral(Words[1])
     /\ IsLiteral(Words[2])
     /\ Words[3] \in {<<"-">>, <<"/">>}
     /\ ParseReturned)
        => LET a == LiteralValue(Words[1])
               b == LiteralValue(Words[2])
           IN
           /\ parsed = [kind |-> "Ok",
                        val |-> [tag |-> OperatorTag(Words[3]),
                                 l |-> [tag |-> "Number", val |-> a],
                                 r |-> [tag |-> "Number", val |-> b]]]
           /\ (EvalReturned /\ Words[3] = <<"-">>)
                 => /\ InRange(a - b) => evaluated = [kind |-> "Ok", val |-> a - b]
                    /\ evaluated.kind = "Ok" => evaluated.val = Wrap(a - b)
           /\ (EvalReturned /\ Words[3] = <<"/">> /\ b # 0 /\ InRange(RefQuotient(a, b)))
                 => evaluated = [kind |-> "Ok", val |-> RefQuotient(a, b)]

\* C1: the operand written first in the text is the left operand of every
\* binary operator node parse builds, so "a b -" evaluates to a - b and
\* "a b /" to a divided by b, never the reverse.
C1_OperandOrder == [][C1_Step]_vars /\ []C1_Result

\* "2 1 -" has been parsed and evaluated to 1
C1_Witness ==
    /\ Words = <<<<"2">>, <<"1">>, <<"-">>>>
    /\ parsed.kind = "Ok"
    /\ evaluated = [kind |-> "Ok", val |-> 1]

---------------------------------------------------------------------------
(* C2 *)

\* C2 (step): once every word is consumed, the stack's depth alone decides
\* what parse returns.
C2_Step ==
    (pc = "parse" /\ pos > Len(Words))
        => /\ pc' = "parsed"
           /\ Len(stack) > 1 => parsed' = [kind |-> "Err", err |-> [kind |-> "LeftArguments"]]
           /\ Len(stack) = 0 => parsed' = [kind |-> "Err", err |-> [kind |-> "EmptyInput"]]
           /\ Len(stack) = 1 => parsed' = [kind |-> "Ok", val |-> stack[1]]

\* C2 (result): a text with no words gives EmptyInput and "1 1" gives
\* LeftArguments.
C2_Result ==
    ParseReturned
        => /\ Words = <<>> => parsed = [kind |-> "Err", err |-> [kind |-> "EmptyInput"]]
           /\ Words = <<<<"1">>, <<"1">>>>
                 => parsed = [kind |-> "Err", err |-> [kind |-> "LeftArguments"]]

\* C2: after the last word the outcome of parse is decided by the final
\* stack depth only: more than one subtree is LeftArguments, none is
\* EmptyInput, exactly one is Ok of that subtree.
C2_FinalStackDepth == [][C2_Step]_vars /\ []C2_Result

\* parse returned LeftArguments for a text whose words were all consumed
C2_Witness ==
    /\ parsed = [kind |-> "Err", err |-> [kind |-> "LeftArguments"]]
    /\ pos = Len(Words) + 1
    /\ Len(stack) > 1

---------------------------------------------------------------------------
(* C3 *)

\* C3 (step): an operator word met with fewer subtrees than its arity makes
\* parse return WrongArgumentsCount at that word.
C3_Step ==
    (/\ AtWord
     /\ \/ Words[pos] \in {<<"+">>, <<"-">>, <<"*">>, <<"/">>} /\ Len(stack) < 2
        \/ Words[pos] = <<"s", "q", "r">> /\ Len(stack) < 1)
        => /\ parsed' = [kind |-> "Err", err |-> [kind |-> "WrongArgumentsCount"]]
           /\ pc' = "parsed"
           /\ pos' = pos

\* C3 (finality): what parse returned is never changed by anything later,
\* and no later word is looked at.
C3_Final == ParseReturned => (parsed' = parsed /\ pos' = pos)

\* C3 (result): "1 +" gives WrongArgumentsCount.
C3_Result ==
    (ParseReturned /\ Words = <<<<"1">>, <<"+">>>>)
        => parsed = [kind |-> "Err", err |-> [kind |-> "WrongArgumentsCount"]]

\* C3: an operator with too few operands on the stack ends parse with
\* WrongArgumentsCount at that word, whatever words follow.
C3_WrongArgumentsCount == [][C3_Step]_vars /\ [][C3_Final]_vars /\ []C3_Result

\* a binary operator met with exactly one operand, with words left after it
C3_Witness ==
    /\ parsed = [kind |-> "Err", err |-> [kind |-> "WrongArgumentsCount"]]
    /\ pos = 2
    /\ Words[2] \in {<<"+">>, <<"-">>, <<"*">>, <<"/">>}
    /\ Len(Words) > 2

---------------------------------------------------------------------------
(* C4 *)

\* C4 (step): a word that is no operator pushes Number of its value when it
\* is a valid literal, and otherwise makes parse return InvalidInput with
\* the word's text.
C4_Step ==
    (AtWord /\ ~IsOperatorWord(Words[pos]))
        => IF IsLiteral(Words[pos])
           THEN /\ stack' = Append(stack, [tag |-> "Number", val |-> LiteralValue(Words[pos])])
                /\ parsed' = NoResult
                /\ pos' = pos + 1
           ELSE /\ parsed' = [kind |-> "Err",
                              err |-> [kind |-> "InvalidInput", text |-> Words[pos]]]
                /\ pc' = "parsed"

\* C4 (result): an InvalidInput that parse returned carries the text of the
\* first word that is neither an operator nor a valid literal, whatever
\* words follow.
C4_Result ==
    (ParseReturned /\ parsed.kind = "Err" /\ parsed.err.kind = "InvalidInput")
        => /\ pos <= Len(Words)
           /\ parsed.err.text = Words[pos]
           /\ ~IsOperatorWord(Words[pos])
           /\ ~IsLiteral(Words[pos])
           /\ \A i \in 1..(pos - 1) : IsOperatorWord(Words[i]) \/ IsLiteral(Words[i])

\* C4: a word that is neither an operator nor a valid literal of the integer
\* type (a literal outside the range included) ends parse with InvalidInput
\* of exactly that word; a valid literal pushes Number of its value.
C4_InvalidInput == [][C4_Step]_vars /\ []C4_Result

\* a literal one past the largest value was rejected with its own text
C4_Witness ==
    /\ parsed = [kind |-> "Err",
                 err |-> [kind |-> "InvalidInput", text |-> FmtInt(MaxInt + 1)]]
    /\ pos = 2
    /\ Len(Words) > 2

---------------------------------------------------------------------------
(* Reading the tree and the log of an evaluation *)

\* the subtree of e at path (1: left or only child, 2: right child)
RECURSIVE SubtreeAt(_, _)
SubtreeAt(e, path) ==
    IF path = <<>> THEN e
    ELSE IF e.tag = "Sqr" THEN SubtreeAt(e.x, Tail(path))
    ELSE IF path[1] = 1 THEN SubtreeAt(e.l, Tail(path))
    ELSE SubtreeAt(e.r, Tail(path))

EvalStarted == pc \in {"evaluated", "done"} /\ parsed.kind = "Ok"

IsCall(i, path) == evalLog[i].ev = "call" /\ evalLog[i].path = path
IsRet(i, path) == evalLog[i].ev = "ret" /\ evalLog[i].path = path

Called(path) == \E i \in 1..Len(evalLog) : IsCall(i, path)
CallIndex(path) == CHOOSE i \in 1..Len(evalLog) : IsCall(i, path)
RetIndex(path) == CHOOSE i \in 1..Len(evalLog) : IsRet(i, path)

\* what the call of eval on the subtree at path gave
ResultAt(path) == evalLog[RetIndex(path)].res

\* the paths of the subtrees eval was called on
CalledPaths == {evalLog[i].path : i \in 1..Len(evalLog)}

\* the mathematical result of the operator node at path on the values its
\* children gave
MathResult(path) ==
    LET e == SubtreeAt(parsed.val, path)
        a == ResultAt(Append(path, 1)).val
    IN  CASE e.tag = "Add" -> a + ResultAt(Append(path, 2)).val
          [] e.tag = "Sub" -> a - ResultAt(Append(path, 2)).val
          [] e.tag = "Mul" -> a * ResultAt(Append(path, 2)).val
          [] e.tag = "Sqr" -> a * a

\* both operands (the operand, for Sqr) of the node at path were evaluated
\* to values
OperandsGiven(path) ==
    LET e == SubtreeAt(parsed.val, path) IN
    /\ Called(Append(path, 1))
    /\ ResultAt(Append(path, 1)).kind = "Ok"
    /\ e.tag # "Sqr" => /\ Called(Append(path, 2))
                        /\ ResultAt(Append(path, 2)).kind = "Ok"

---------------------------------------------------------------------------
(* C5 *)

\* C5: for every text on which parse succeeds, eval on the tree returns
\* Ok(number) or Err(DivisionByZero) and never ends in another way,
\* whatever the operand values (out-of-range sums, differences, products
\* and squares, and the minimum value divided by -1, included).
C5_EvalAlwaysReturns ==
    EvalStarted
        => \/ evaluated.kind = "Ok" /\ InRange(evaluated.val)
           \/ evaluated = [kind |-> "Err", err |-> [kind |-> "DivisionByZero"]]

---------------------------------------------------------------------------
(* C6 *)

\* C6: whenever the mathematical result of Add, Sub, Mul or Sqr on evaluated
\* operands lies outside the range of the integer type, eval of that node
\* returns Ok of the wraparound value.
C6_OverflowWraps ==
    EvalStarted
        => \A p \in CalledPaths :
              (/\ SubtreeAt(parsed.val, p).tag \in {"Add", "Sub", "Mul", "Sqr"}
               /\ OperandsGiven(p)
               /\ ~InRange(MathResult(p)))
                  => ResultAt(p) = [kind |-> "Ok", val |-> Wrap(MathResult(p))]

---------------------------------------------------------------------------
(* C7 *)

\* C7: for every Div node eval is called on, the first thing evaluated is
\* the divisor; when the divisor fails that failure is the node's result,
\* when it is 0 the result is DivisionByZero, and in both cases eval is
\* never called on the dividend; otherwise the dividend is evaluated after
\* the divisor has returned.
C7_DivisorFirst ==
    EvalStarted
        => \A p \in CalledPaths :
              SubtreeAt(parsed.val, p).tag = "Div"
                 => LET l == Append(p, 1)
                        r == Append(p, 2)
                    IN
                    /\ IsCall(CallIndex(p) + 1, r)
                    /\ ResultAt(r).kind # "Ok"
                          => ~Called(l) /\ ResultAt(p) = ResultAt(r)
                    /\ (ResultAt(r).kind = "Ok" /\ ResultAt(r).val = 0)
                          => /\ ~Called(l)
                             /\ ResultAt(p) = [kind |-> "Err",
                                               err |-> [kind |-> "DivisionByZero"]]
                    /\ (ResultAt(r).kind = "Ok" /\ ResultAt(r).val # 0)
                          => IsCall(RetIndex(r) + 1, l)

\* the dividend of a Div node would overflow, the divisor is 0, and the
\* result is DivisionByZero in a build that traps overflow
C7_Witness ==
    /\ EvalStarted
    /\ overflowChecks
    /\ parsed.val = [tag |-> "Div",
                     l |-> [tag |-> "Sqr", x |-> [tag |-> "Number", val |-> MaxInt]],
                     r |-> [tag |-> "Number", val |-> 0]]
    /\ evaluated = [kind |-> "Err", err |-> [kind |-> "DivisionByZero"]]
    /\ ~Called(<<1>>)

---------------------------------------------------------------------------
(* C8 *)

\* C8: eval_str returns Parse(e) for a parse failure e, without starting
\* the evaluation; Eval(e) for an evaluation failure e; and otherwise Ok of
\* the value eval returned.
C8_EvalStr ==
    pc = "done"
        => /\ parsed.kind = "Err"
                 => /\ out = [kind |-> "Err", err |-> [kind |-> "Parse", err |-> parsed.err]]
                    /\ evaluated = NoResult
                    /\ evalLog = <<>>
           /\ (parsed.kind = "Ok" /\ evaluated.kind = "Err")
                 => out = [kind |-> "Err", err |-> [kind |-> "Eval", err |-> evaluated.err]]
           /\ (parsed.kind = "Ok" /\ evaluated.kind = "Ok")
                 => out = [kind |-> "Ok", val |-> evaluated.val]

\* eval_str has returned an evaluation failure
C8_Witness ==
    /\ pc = "done"
    /\ parsed.kind = "Ok"
    /\ evaluated.kind = "Err"
    /\ out.kind = "Err"

---------------------------------------------------------------------------
(* C9 *)

\* the value of a tree by the reference recursive definition, over the
\* mathematical integers
RECURSIVE RefValue(_)
RefValue(e) ==
    CASE e.tag = "Number" -> e.val
      [] e.tag = "Add" -> RefValue(e.l) + RefValue(e.r)
      [] e.tag = "Sub" -> RefValue(e.l) - RefValue(e.r)
      [] e.tag = "Mul" -> RefValue(e.l) * RefValue(e.r)
      [] e.tag = "Div" -> RefQuotient(RefValue(e.l), RefValue(e.r))
      [] e.tag = "Sqr" -> RefValue(e.x) * RefValue(e.x)

\* no divisor of the tree is zero and every intermediate result is in range
RECURSIVE Regular(_)
Regular(e) ==
    CASE e.tag = "Number" -> TRUE
      [] e.tag \in {"Add", "Sub", "Mul"} ->
            Regular(e.l) /\ Regular(e.r) /\ InRange(RefValue(e))
      [] e.tag = "Div" ->
            Regular(e.r) /\ RefValue(e.r) # 0 /\ Regular(e.l) /\ InRange(RefValue(e))
      [] e.tag = "Sqr" -> Regular(e.x) /\ InRange(RefValue(e))

\* C9: for a tree whose evaluation meets no zero divisor and no out-of-range
\* intermediate result, eval returns the value of the reference recursive
\* definition, with Div truncated toward zero; "4 2 + 6 *" gives 36,
\* "3 sqr 4 sqr + 5 sqr -" gives 0, "3 2 /" gives 1 and "-3 2 /" gives -1.
C9_ReferenceValue ==
    EvalStarted
        => /\ Regular(parsed.val)
                 => evaluated = [kind |-> "Ok", val |-> RefValue(parsed.val)]
           /\ Words = <<<<"4">>, <<"2">>, <<"+">>, <<"6">>, <<"*">>>>
                 => evaluated = [kind |-> "Ok", val |-> 36]
           /\ Words = <<<<"3">>, <<"s", "q", "r">>, <<"4">>, <<"s", "q", "r">>, <<"+">>,
                        <<"5">>, <<"s", "q", "r">>, <<"-">>>>
                 => evaluated = [kind |-> "Ok", val |-> 0]
           /\ Words = <<<<"3">>, <<"2">>, <<"/">>>>
                 => evaluated = [kind |-> "Ok", val |-> 1]
           /\ Words = <<<<"-", "3">>, <<"2">>, <<"/">>>>
                 => evaluated = [kind |-> "Ok", val |-> -1]

\* a negative dividend with a remainder was divided: -3 / 2 gave -1
C9_Witness ==
    /\ EvalStarted
    /\ parsed.val = [tag |-> "Div",
                     l |-> [tag |-> "Number", val |-> -3],
                     r |-> [tag |-> "Number", val |-> 2]]
    /\ evaluated = [kind |-> "Ok", val |-> -1]

---------------------------------------------------------------------------
(* C10 *)

\* the post-order (left, right, node) traversal of a tree, each Number
\* written as the decimal text of its value and each operator as its symbol
RECURSIVE PostOrder(_)
PostOrder(e) ==
    CASE e.tag = "Number" -> <<FmtInt(e.val)>>
      [] e.tag = "Add" -> PostOrder(e.l) \o PostOrder(e.r) \o <<<<"+">>>>
      [] e.tag = "Sub" -> PostOrder(e.l) \o PostOrder(e.r) \o <<<<"-">>>>
      [] e.tag = "Mul" -> PostOrder(e.l) \o PostOrder(e.r) \o <<<<"*">>>>
      [] e.tag = "Div" -> PostOrder(e.l) \o PostOrder(e.r) \o <<<<"/">>>>
      [] e.tag = "Sqr" -> Append(PostOrder(e.x), <<"s", "q", "r">>)

\* the stack is non-empty after every successfully processed word, and
\* EmptyInput is returned only for a text without words
StackNeverEmptied ==
    /\ (pc = "parse" /\ pos > 1) => Len(stack) >= 1
    /\ parsed = [kind |-> "Err", err |-> [kind |-> "EmptyInput"]] => Words = <<>>

\* C10 (as stated): whenever parse succeeds, the post-order traversal of the
\* tree gives exactly the input's words, and the stack is non-empty after
\* every successfully processed word.
C10_PostOrderIsInput ==
    /\ parsed.kind = "Ok" => PostOrder(parsed.val) = Words
    /\ StackNeverEmptied

\* C10 (amended): whenever parse succeeds, the post-order traversal has the
\* length of the input's word sequence, every operator word stands at its
\* place unchanged, and at the place of every number word stands the
\* decimal text of that word's value (the word itself when it has no plus
\* sign, no leading zeros and is not "-0"); the stack is non-empty after
\* every successfully processed word.
C10_PostOrderIsCanonicalInput ==
    /\ parsed.kind = "Ok"
          => /\ Len(PostOrder(parsed.val)) = Len(Words)
             /\ \A i \in 1..Len(Words) :
                   IF IsOperatorWord(Words[i])
                   THEN PostOrder(parsed.val)[i] = Words[i]
                   ELSE /\ IsLiteral(Words[i])
                        /\ PostOrder(parsed.val)[i] = FmtInt(LiteralValue(Words[i]))
                        /\ LiteralValue(PostOrder(parsed.val)[i]) = LiteralValue(Words[i])
    /\ StackNeverEmptied

\* a text with a non-commutative operator and a number written with a plus
\* sign and one written with a leading zero has been parsed
C10_Witness ==
    /\ Words = <<<<"+", "2">>, <<"0", "1">>, <<"-">>>>
    /\ parsed.kind = "Ok"
    /\ PostOrder(parsed.val) = <<<<"2">>, <<"1">>, <<"-">>>>

=============================================================================
